---- MODULE Spec2Model ----
(***************************************************************************)
(* VisionSafe: the strike state machine of the live monitor.               *)
(*                                                                         *)
(* One monitor session (Streamlit session state: worker_db, violation_log) *)
(* processes frames; every person of a frame goes through get_missing_gear *)
(* and update_strikes, and an accepted strike is snapshotted, recorded and *)
(* saved to the CSV database.  The wall clock (time.time()) advances on    *)
(* its own.  The administrator can delete all records.                     *)
(***************************************************************************)
EXTENDS Integers, Naturals, Sequences, FiniteSets, TLC

\* ---------------------------------------------------------------- bounds
\* time.time() when the session starts (seconds; any value above the largest
\* cooldown the slider offers behaves alike)
StartTime == 40
\* how many seconds beyond one cooldown the model follows the wall clock
Extra == 2
\* person detections in one frame
MaxPersons == 2

\* the largest strike count a pure function is called with on its own
MaxCount == 31

\* the most PPE detections get_missing_gear is called with on its own
MaxDetections == 3

\* the most records one session saves to the shared database
MaxSaves == 2

\* track ids the detector hands out
TrackIds == {7, 8}
\* the cooldown of update_strikes when none is passed
DefaultCooldown == 5
\* max_strikes of is_fired and get_worker_status when none is passed, and the
\* default of the "Max Strikes" slider
DefaultMaxStrikes == 15
\* the least and the largest value the "Max Strikes" slider offers
MinMaxStrikes == 5
MaxMaxStrikes == 30
\* the I/O of a run: all calls succeed, or every cv2.imwrite of save_snapshot
\* raises, or every to_csv of save_violation
IOModes == {"ok", "snapshot_fails", "save_fails"}
\* person boxes <<x1, y1, x2, y2>> the detector reports: a well-formed one, one
\* with x1 > x2, and one with x1 = x2
WellFormedBox == <<0, 0, 100, 300>>
InvertedBox == <<100, 0, 0, 300>>
DegenerateBox == <<50, 0, 50, 300>>
PersonBoxes == {WellFormedBox, InvertedBox, DegenerateBox}

\* PPE detections, each with its class id and a box that is_associated accepts
\* for the well-formed person box; and one of a class without a name
PPE ==
    [Helmet        |-> [cls |-> 1, box |-> <<30, 10, 70, 50>>],
     WeldingHelmet |-> [cls |-> 2, box |-> <<30, 10, 70, 50>>],
     Goggles       |-> [cls |-> 3, box |-> <<35, 30, 65, 50>>],
     Vest          |-> [cls |-> 4, box |-> <<10, 80, 90, 200>>],
     Gloves        |-> [cls |-> 5, box |-> <<0, 120, 100, 180>>],
     Shoes         |-> [cls |-> 6, box |-> <<20, 270, 80, 300>>],
     Unnamed       |-> [cls |-> 7, box |-> <<40, 140, 60, 160>>],
     FarVest       |-> [cls |-> 4, box |-> <<210, 80, 290, 200>>]]

\* the PPE detections of a frame, in the detector's order, the model feeds in
PPEFrames ==
    { <<PPE.Helmet, PPE.Vest, PPE.Gloves, PPE.Shoes>>,
      <<PPE.Goggles, PPE.Gloves, PPE.Shoes>>,
      <<PPE.WeldingHelmet, PPE.Shoes>> }

\* the runs the model follows: a value of the cooldown slider (it offers 1..30)
\* and of the max strikes slider, the track ids the detector reports during the
\* run, the run's I/O, and the seconds of footage
Sessions ==
    { [cooldown |-> 2, max_strikes |-> DefaultMaxStrikes, tracks |-> TrackIds,
       io |-> "ok", seconds |-> 2 + Extra, person_boxes |-> {WellFormedBox}] }
    \cup { [cooldown |-> DefaultCooldown, max_strikes |-> DefaultMaxStrikes,
             tracks |-> {7}, io |-> m, seconds |-> DefaultCooldown + Extra,
             person_boxes |-> {WellFormedBox}]
           : m \in IOModes }

\* a run that reaches the least maximum the slider offers, and goes beyond it:
\* the least cooldown, and footage for one strike more than the maximum
FiringSession ==
    [cooldown |-> 1, max_strikes |-> MinMaxStrikes, tracks |-> {7}, io |-> "ok",
     seconds |-> 2 * MinMaxStrikes, person_boxes |-> {WellFormedBox}]

\* a run whose detector reports malformed person boxes too
BoxesSession ==
    [cooldown |-> DefaultCooldown, max_strikes |-> DefaultMaxStrikes, tracks |-> {7},
     io |-> "ok", seconds |-> DefaultCooldown + Extra, person_boxes |-> PersonBoxes]

\* a run with one track whose footage outlasts the cooldown
LiveSession ==
    [cooldown |-> 2, max_strikes |-> DefaultMaxStrikes, tracks |-> {7}, io |-> "ok",
     seconds |-> 2 + Extra, person_boxes |-> {WellFormedBox}]

\* the equipment sets associated with a person that the model feeds in
GearChoices ==
    { {"Helmet", "Vest", "Gloves", "Shoes"},
      {"Goggles", "Gloves", "Shoes"},
      {"Welding Helmet", "Shoes"} }

VARIABLES
    worker_db,       \* st.session_state['worker_db']: pid -> worker record
    violation_log,   \* st.session_state['violation_log']: list of records
    database,        \* safety_database.csv: does the file exist, and its rows
    evidence_snaps,  \* files of the evidence_snaps directory
    now,             \* the wall clock, time.time()
    cooldown,        \* the cooldown slider of the session
    max_strikes,     \* the max strikes slider of the session
    seconds,         \* the seconds of footage the session has
    remaining,       \* persons of the current frame the loop has yet to process
    pid,             \* the loop's pid: the track id of the person processed last
    pbox,            \* the loop's pbox: the box of that person
    missing_items,   \* the loop's missing_items, of that person
    new_strike,      \* the loop's new_strike: what update_strikes returned
    status_label,    \* the loop's status_label and is_fired_flag: what
    is_fired_flag,   \* get_worker_status returned
    io,              \* the I/O call that raises in this run, if any
    tracks,          \* the track ids the detector reports in this run
    person_boxes,    \* the person boxes the detector reports in this run
    struck,          \* history: the track ids struck in the current frame
    scenario,        \* history: how much of the scenario the passes have played
    run,             \* history: the current run of consecutive passes for one
                     \* track that found one and the same items missing
    probe,           \* a call of one of the pure functions on its own: its
                     \* arguments and what it returned
    savers           \* the monitor sessions that share the database file: where
                     \* each is in its call of save_violation, and its locals

vars == <<worker_db, violation_log, database, evidence_snaps, now, cooldown,
          max_strikes, seconds, remaining, pid, pbox, missing_items, new_strike,
          status_label, is_fired_flag, io, tracks, person_boxes, struck, scenario,
          run, probe, savers>>

\* ------------------------------------------------------- pure functions

\* Python's str order on the labels of a MissingSet
LabelRank(label) ==
    CASE label = "Gloves"   -> 1
      [] label = "Headgear" -> 2
      [] label = "Shoes"    -> 3
      [] label = "Vest"     -> 4

\* insertion of one label into a sorted list
RECURSIVE InsertSorted(_, _)
InsertSorted(label, s) ==
    IF s = <<>> THEN <<label>>
    ELSE IF LabelRank(label) < LabelRank(Head(s)) THEN <<label>> \o s
    ELSE <<Head(s)>> \o InsertSorted(label, Tail(s))

\* sorted(missing_items)
RECURSIVE sorted(_)
sorted(s) ==
    IF s = <<>> THEN <<>> ELSE InsertSorted(Head(s), sorted(Tail(s)))

\* ", ".join(missing_items)
RECURSIVE Join(_)
Join(s) ==
    IF s = <<>> THEN ""
    ELSE IF Len(s) = 1 THEN Head(s)
    ELSE Head(s) \o ", " \o Join(Tail(s))

\* max and min of two numbers
Max(a, b) == IF a >= b THEN a ELSE b
Min(a, b) == IF a <= b THEN a ELSE b

\* mutant: the union is not looked at, and a union of 0 gives an IoU of 1
calculate_iou_full_when_empty(box1, box2) ==
    LET x1 == Max(box1[1], box2[1])
        y1 == Max(box1[2], box2[2])
        x2 == Min(box1[3], box2[3])
        y2 == Min(box1[4], box2[4])
        intersection == Max(0, x2 - x1) * Max(0, y2 - y1)
        area1 == (box1[3] - box1[1]) * (box1[4] - box1[2])
        area2 == (box2[3] - box2[1]) * (box2[4] - box2[2])
        union == area1 + area2 - intersection
    IN  IF union # 0 THEN [num |-> intersection, den |-> union]
        ELSE [num |-> 1, den |-> 1]

\* calculate_iou, as the fraction intersection / union (0 / 1 when the union is
\* not positive); a box is <<x1, y1, x2, y2>>
calculate_iou(box1, box2) ==
    LET x1 == Max(box1[1], box2[1])
        y1 == Max(box1[2], box2[2])
        x2 == Min(box1[3], box2[3])
        y2 == Min(box1[4], box2[4])
        intersection == Max(0, x2 - x1) * Max(0, y2 - y1)
        area1 == (box1[3] - box1[1]) * (box1[4] - box1[2])
        area2 == (box2[3] - box2[1]) * (box2[4] - box2[2])
        union == area1 + area2 - intersection
    IN  IF union > 0 THEN [num |-> intersection, den |-> union]
        ELSE [num |-> 0, den |-> 1]

\* mutant: a helmet anywhere in the top half of the person is associated
is_associated_top_half(person_box, item_box, item_class) ==
    LET px1 == person_box[1]
        py1 == person_box[2]
        px2 == person_box[3]
        py2 == person_box[4]
        person_height == py2 - py1
        cx2  == item_box[1] + item_box[3]
        cy30 == 15 * (item_box[2] + item_box[4])
        across == 2 * px1 <= cx2 /\ cx2 <= 2 * px2
        iou == calculate_iou(person_box, item_box)
    IN  IF item_class \in {1, 2}
        THEN 30 * py1 <= cy30 /\ cy30 <= 30 * py1 + 15 * person_height /\ across
        ELSE IF item_class = 6
        THEN 30 * py2 - 6 * person_height <= cy30 /\ cy30 <= 30 * py2 /\ across
        ELSE IF item_class = 3
        THEN 30 * py1 <= cy30 /\ cy30 <= 30 * py1 + 12 * person_height /\ across
        ELSE IF item_class = 4
        THEN /\ 30 * py1 + 6 * person_height <= cy30
             /\ cy30 <= 30 * py1 + 21 * person_height
             /\ across
        ELSE IF item_class = 5
        THEN 10 * iou.num > iou.den
        ELSE across /\ 30 * py1 <= cy30 /\ cy30 <= 30 * py2

\* is_associated; the comparisons with the item's centre ((ix1 + ix2) / 2,
\* (iy1 + iy2) / 2) and with the fractions of the person's height are taken
\* times 2 (across) and times 30 (down), in whole numbers
is_associated(person_box, item_box, item_class) ==
    LET px1 == person_box[1]
        py1 == person_box[2]
        px2 == person_box[3]
        py2 == person_box[4]
        person_height == py2 - py1
        cx2  == item_box[1] + item_box[3]
        cy30 == 15 * (item_box[2] + item_box[4])
        across == 2 * px1 <= cx2 /\ cx2 <= 2 * px2
        iou == calculate_iou(person_box, item_box)
    IN  IF item_class \in {1, 2}
        THEN 30 * py1 <= cy30 /\ cy30 <= 30 * py1 + 10 * person_height /\ across
        ELSE IF item_class = 6
        THEN 30 * py2 - 6 * person_height <= cy30 /\ cy30 <= 30 * py2 /\ across
        ELSE IF item_class = 3
        THEN 30 * py1 <= cy30 /\ cy30 <= 30 * py1 + 12 * person_height /\ across
        ELSE IF item_class = 4
        THEN /\ 30 * py1 + 6 * person_height <= cy30
             /\ cy30 <= 30 * py1 + 21 * person_height
             /\ across
        ELSE IF item_class = 5
        THEN 10 * iou.num > iou.den
        ELSE across /\ 30 * py1 <= cy30 /\ cy30 <= 30 * py2

\* mutant: a class without a name counts as a vest
class_mapping_vest_by_default(ppe_class) ==
    CASE ppe_class = 1 -> "Helmet"
      [] ppe_class = 2 -> "Welding Helmet"
      [] ppe_class = 3 -> "Goggles"
      [] ppe_class = 4 -> "Vest"
      [] ppe_class = 5 -> "Gloves"
      [] ppe_class = 6 -> "Shoes"
      [] OTHER -> "Vest"

\* class_mapping.get(int(ppe_class), f"Class_{ppe_class}")
class_mapping(ppe_class) ==
    CASE ppe_class = 1 -> "Helmet"
      [] ppe_class = 2 -> "Welding Helmet"
      [] ppe_class = 3 -> "Goggles"
      [] ppe_class = 4 -> "Vest"
      [] ppe_class = 5 -> "Gloves"
      [] ppe_class = 6 -> "Shoes"
      [] OTHER -> "Class_" \o ToString(ppe_class)

\* the loop of get_missing_gear over the PPE detections of the frame, each a
\* record of its class and its box: the set detected_gear it leaves
RECURSIVE DetectedGear(_, _)
DetectedGear(person_box, ppe) ==
    IF ppe = << >> THEN {}
    ELSE LET item == Head(ppe)
         IN  (IF is_associated(person_box, item.box, item.cls)
              THEN {class_mapping(item.cls)} ELSE {})
             \cup DetectedGear(person_box, Tail(ppe))

\* mutant: only a helmet counts as head protection
get_missing_gear_helmet_only(gear) ==
    LET required(label) == IF label \notin gear THEN <<label>> ELSE <<>>
    IN  required("Vest") \o required("Gloves") \o required("Shoes")
        \o (IF "Helmet" \notin gear THEN <<"Headgear">> ELSE <<>>)

\* get_missing_gear, from the set of associated gear names on
get_missing_gear(detected_gear) ==
    LET required(label) == IF label \notin detected_gear THEN <<label>> ELSE <<>>
        has_head_protection ==
            \E gear \in {"Helmet", "Welding Helmet", "Goggles"} : gear \in detected_gear
    IN  required("Vest") \o required("Gloves") \o required("Shoes")
        \o (IF ~has_head_protection THEN <<"Headgear">> ELSE <<>>)

\* get_missing_gear(pbox, ppe_boxes, ppe_classes) for the person boxes and the
\* PPE detections the model feeds in
MissingGear ==
    [box \in PersonBoxes, ppe \in PPEFrames |->
        get_missing_gear(DetectedGear(box, ppe))]

\* mutant: a new track id is stamped with the time of its first sighting
NewWorker_stamped == [strikes |-> 0, last_violation |-> <<>>, last_strike_time |-> now]

\* the worker record a new track id gets
NewWorker == [strikes |-> 0, last_violation |-> <<>>, last_strike_time |-> 0]

\* the three conditions of update_strikes
is_new_violation(worker, items) == sorted(items) # worker.last_violation

\* mutant: after a strike the cooldown never ends
cooldown_expired_never_again(worker, t, cd) == worker.last_strike_time = 0

\* mutant: the cooldown is not looked at
cooldown_expired_ignored(worker, t, cd) == TRUE

\* mutant: the cooldown is over two seconds early
cooldown_expired_early(worker, t, cd) == (t - worker.last_strike_time) > cd - 2

\* mutant: the cooldown is over one second late
cooldown_expired_late(worker, t, cd) == (t - worker.last_strike_time) > cd + 1

\* mutant: the cooldown is over when just the cooldown has passed
cooldown_expired_inclusive(worker, t, cd) == (t - worker.last_strike_time) >= cd

cooldown_expired(worker, t, cd) == (t - worker.last_strike_time) > cd

has_violations(items) == Len(items) > 0

\* mutant: every tick with something missing is a strike
StrikeAccepted_naive(worker, items, t, cd) == has_violations(items)

StrikeAccepted(worker, items, t, cd) ==
    /\ has_violations(items)
    /\ is_new_violation(worker, items)
    /\ cooldown_expired(worker, t, cd)

\* mutant: the signature is stored as it came, not sorted
update_strikes_unsorted(worker, items, t, cd) ==
    IF StrikeAccepted(worker, items, t, cd)
    THEN [worker |-> [strikes          |-> worker.strikes + 1,
                      last_violation   |-> items,
                      last_strike_time |-> t],
          result |-> TRUE]
    ELSE IF ~has_violations(items)
    THEN [worker |-> [worker EXCEPT !.last_violation = << >>], result |-> FALSE]
    ELSE [worker |-> worker, result |-> FALSE]

\* mutant: a compliant tick forgives the strikes
update_strikes_forgiving(worker, items, t, cd) ==
    IF StrikeAccepted(worker, items, t, cd)
    THEN [worker |-> [strikes          |-> worker.strikes + 1,
                      last_violation   |-> sorted(items),
                      last_strike_time |-> t],
          result |-> TRUE]
    ELSE IF ~has_violations(items)
    THEN [worker |-> [worker EXCEPT !.last_violation = << >>, !.strikes = 0],
          result |-> FALSE]
    ELSE [worker |-> worker, result |-> FALSE]

\* mutant: a tick that is turned down still stores its signature
update_strikes_remembering(worker, items, t, cd) ==
    IF StrikeAccepted(worker, items, t, cd)
    THEN [worker |-> [strikes          |-> worker.strikes + 1,
                      last_violation   |-> sorted(items),
                      last_strike_time |-> t],
          result |-> TRUE]
    ELSE [worker |-> [worker EXCEPT !.last_violation = sorted(items)], result |-> FALSE]

\* mutant: the signature is cleared only once the cooldown is over
update_strikes_slow_clear(worker, items, t, cd) ==
    IF StrikeAccepted(worker, items, t, cd)
    THEN [worker |-> [strikes          |-> worker.strikes + 1,
                      last_violation   |-> sorted(items),
                      last_strike_time |-> t],
          result |-> TRUE]
    ELSE IF ~has_violations(items) /\ cooldown_expired(worker, t, cd)
    THEN [worker |-> [worker EXCEPT !.last_violation = << >>], result |-> FALSE]
    ELSE [worker |-> worker, result |-> FALSE]

\* mutant: a tick that is turned down restarts the cooldown
update_strikes_restart(worker, items, t, cd) ==
    IF StrikeAccepted(worker, items, t, cd)
    THEN [worker |-> [strikes          |-> worker.strikes + 1,
                      last_violation   |-> sorted(items),
                      last_strike_time |-> t],
          result |-> TRUE]
    ELSE IF ~has_violations(items)
    THEN [worker |-> [worker EXCEPT !.last_violation = << >>], result |-> FALSE]
    ELSE [worker |-> [worker EXCEPT !.last_strike_time = t], result |-> FALSE]

\* mutant: a compliant tick leaves the signature in place
update_strikes_keeps_signature(worker, items, t, cd) ==
    IF StrikeAccepted(worker, items, t, cd)
    THEN [worker |-> [strikes          |-> worker.strikes + 1,
                      last_violation   |-> sorted(items),
                      last_strike_time |-> t],
          result |-> TRUE]
    ELSE [worker |-> worker, result |-> FALSE]

\* update_strikes at time t: the worker record as the call leaves it, and the
\* value the call returns
update_strikes(worker, items, t, cd) ==
    IF StrikeAccepted(worker, items, t, cd)
    THEN [worker |-> [strikes          |-> worker.strikes + 1,
                      last_violation   |-> sorted(items),
                      last_strike_time |-> t],
          result |-> TRUE]
    ELSE IF ~has_violations(items)
    THEN [worker |-> [worker EXCEPT !.last_violation = << >>], result |-> FALSE]
    ELSE [worker |-> worker, result |-> FALSE]

\* COOLDOWN_SECONDS of app_final.py
COOLDOWN_SECONDS == 5

\* mutant: the inline copy lets a strike through when just the cooldown has passed
app_final_strikes_inclusive(worker, items, current_time) ==
    LET is_safe == Len(items) = 0
        current_violation_signature == sorted(items)
        is_new_fault == current_violation_signature # worker.last_violation
        is_cooldown_over ==
            (current_time - worker.last_strike_time) >= COOLDOWN_SECONDS
        strike == ~is_safe /\ is_new_fault /\ is_cooldown_over
        counted == IF strike
                   THEN [strikes          |-> worker.strikes + 1,
                         last_violation   |-> current_violation_signature,
                         last_strike_time |-> current_time]
                   ELSE worker
    IN  [worker |-> IF is_safe THEN [counted EXCEPT !.last_violation = << >>]
                    ELSE counted,
         result |-> strike]

\* the state machine written out in the person loop of app_final.py, at time
\* current_time: the worker record as the pass leaves it, and whether the pass
\* took the strike branch
app_final_strikes(worker, items, current_time) ==
    LET is_safe == Len(items) = 0
        current_violation_signature == sorted(items)
        is_new_fault == current_violation_signature # worker.last_violation
        is_cooldown_over ==
            (current_time - worker.last_strike_time) > COOLDOWN_SECONDS
        strike == ~is_safe /\ is_new_fault /\ is_cooldown_over
        counted == IF strike
                   THEN [strikes          |-> worker.strikes + 1,
                         last_violation   |-> current_violation_signature,
                         last_strike_time |-> current_time]
                   ELSE worker
    IN  [worker |-> IF is_safe THEN [counted EXCEPT !.last_violation = << >>]
                    ELSE counted,
         result |-> strike]

\* mutant: fired only above the maximum
is_fired_above(strikes, max) == strikes > max

\* is_fired
is_fired(strikes, max) == strikes >= max

\* mutant: a worker with nothing missing is shown as safe, fired or not
get_worker_status_safe_first(worker, items, max) ==
    IF Len(items) = 0 THEN << <<0, 255, 0>>, "SAFE", FALSE >>
    ELSE IF worker.strikes >= max THEN << <<0, 0, 255>>, "FIRED!", TRUE >>
    ELSE << <<0, 165, 255>>, "UNSAFE", FALSE >>

\* get_worker_status: (status_color, status_label, is_fired)
get_worker_status(worker, items, max) ==
    IF worker.strikes >= max THEN << <<0, 0, 255>>, "FIRED!", TRUE >>
    ELSE IF Len(items) > 0 THEN << <<0, 165, 255>>, "UNSAFE", FALSE >>
    ELSE << <<0, 255, 0>>, "SAFE", FALSE >>

\* save_snapshot: the first file name for the worker and the second that is free
\* (counter 0 is the name without a counter)
RECURSIVE FreeName(_, _, _, _)
FreeName(files, worker_id, t, counter) ==
    IF <<worker_id, t, counter>> \in files
    THEN FreeName(files, worker_id, t, counter + 1)
    ELSE <<worker_id, t, counter>>

\* what save_snapshot returns when it has saved nothing, and the empty string
None == <<"None">>
EmptyString == << >>

\* mutant: the record carries the count the strike found
record_violation_count_before(worker_id, items, strikes, evidence_path) ==
    [Time      |-> now,
     ID        |-> "Worker-" \o ToString(worker_id),
     Violation |-> Join(items),
     Strikes   |-> strikes - 1,
     Evidence  |-> IF evidence_path # None THEN evidence_path ELSE EmptyString]

\* record_violation
record_violation(worker_id, items, strikes, evidence_path) ==
    [Time      |-> now,
     ID        |-> "Worker-" \o ToString(worker_id),
     Violation |-> Join(items),
     Strikes   |-> strikes,
     Evidence  |-> IF evidence_path # None THEN evidence_path ELSE EmptyString]

\* df_final.tail(500) of save_violation
RowLimit == 500

LastRows(rows, n) ==
    IF Len(rows) <= n THEN rows ELSE SubSeq(rows, Len(rows) - n + 1, Len(rows))

\* save_violation: the file after the call; an exception leaves it as it was
save_violation(db, violation_record, ok) ==
    IF ~ok THEN db
    ELSE IF db.exists
    THEN [exists |-> TRUE, rows |-> LastRows(Append(db.rows, violation_record), RowLimit)]
    ELSE [exists |-> TRUE, rows |-> <<violation_record>>]

\* ------------------------------------------------------------ the state

\* a person detection of a frame: its track id and its box, with the PPE
\* detections of the frame
PersonDetections == [pid : TrackIds, box : PersonBoxes, ppe : PPEFrames]

\* no run: the last pass of the loop found nothing missing, or there was none
NoRun == [first |-> 0, strikes |-> 0]

\* the run after a pass at time t that found items missing; continues tells
\* whether the pass was for the track of the pass before it and found the same
\* items missing. A run keeps the time of its first pass and the number of
\* strikes accepted in it no later than one cooldown after that first pass.
RunAfter(r, continues, items, t, accepted, cd) ==
    IF items = << >> THEN NoRun
    ELSE IF ~continues \/ r = NoRun
    THEN [first |-> t, strikes |-> IF accepted THEN 1 ELSE 0]
    ELSE IF t <= r.first + cd
    THEN [r EXCEPT !.strikes = @ + (IF accepted THEN 1 ELSE 0)]
    ELSE r

\* the scenario: a new track 7 under a cooldown of 5 seconds, and its ticks,
\* each at its offset from the first, with what get_missing_gear reports
Scenario ==
    [track    |-> 7,
     cooldown |-> 5,
     ticks    |-> << [t |-> 0, items |-> <<"Vest">>],
                     [t |-> 2, items |-> <<"Vest">>],
                     [t |-> 6, items |-> <<"Vest", "Gloves">>],
                     [t |-> 7, items |-> << >>] >>]

\* none of the scenario has been played
NoScenario == [played |-> 0, start |-> 0]

\* how much of the scenario has been played after a pass for worker_id at time
\* t that found items missing: the pass starts it, continues it or leaves it
ScenarioAfter(sc, is_new, worker_id, items, t, cd) ==
    IF worker_id # Scenario.track THEN sc
    ELSE IF is_new /\ cd = Scenario.cooldown /\ items = Scenario.ticks[1].items
    THEN [played |-> 1, start |-> t]
    ELSE IF /\ sc.played \in 1..(Len(Scenario.ticks) - 1)
            /\ items = Scenario.ticks[sc.played + 1].items
            /\ t = sc.start + Scenario.ticks[sc.played + 1].t
    THEN [sc EXCEPT !.played = @ + 1]
    ELSE NoScenario

\* the loop's pid and pbox before any person was processed
NoPid == 0
NoBox == << >>

\* no pure function has been called on its own
NoProbe == [fn |-> ""]

\* the monitor sessions that write to one safety_database.csv, each watching a
\* track of its own
SaverSessions == {7, 8}

\* no session is in save_violation; saved are the records of the calls of the
\* session that have returned
NoSavers ==
    [s \in SaverSessions |->
        [pc |-> "idle", violation_record |-> << >>, df_final |-> << >>,
         saved |-> << >>]]

\* the sliders, the detector and the I/O of the session
Configured(session) ==
    /\ cooldown = session.cooldown
    /\ max_strikes = session.max_strikes
    /\ seconds = session.seconds
    /\ tracks = session.tracks
    /\ person_boxes = session.person_boxes
    /\ io = session.io

\* the state of a session before its first frame
Started ==
    /\ worker_db = << >>
    /\ violation_log = << >>
    /\ database = [exists |-> FALSE, rows |-> << >>]
    /\ evidence_snaps = {}
    /\ now = StartTime
    /\ remaining = 0
    /\ pid = NoPid
    /\ pbox = NoBox
    /\ missing_items = << >>
    /\ new_strike = FALSE
    /\ status_label = ""
    /\ is_fired_flag = FALSE
    /\ struck = {}
    /\ scenario = NoScenario
    /\ run = NoRun
    /\ probe = NoProbe
    /\ savers = NoSavers

Init == Started /\ \E session \in Sessions : Configured(session)

\* mutant: every sighting initialises the worker
WorkerOf_reinitialised(db, p) == NewWorker

\* the worker record of p, as the loop body sees it after "Initialize worker if new"
WorkerOf(db, p) == IF p \in DOMAIN db THEN db[p] ELSE NewWorker

\* time passes
Tick ==
    /\ now < StartTime + seconds
    /\ now' = now + 1
    /\ UNCHANGED <<worker_db, violation_log, database, evidence_snaps, cooldown,
                   max_strikes, seconds, remaining, pid, pbox, missing_items,
                   new_strike, status_label, is_fired_flag, io, tracks, person_boxes,
                   struck, scenario, run, probe, savers>>

\* cap.read() and extract_detections: the next frame, with its person detections
ReadFrame ==
    /\ remaining = 0
    /\ remaining' \in 1..MaxPersons
    /\ struck' = {}
    /\ UNCHANGED <<worker_db, violation_log, database, evidence_snaps, now, cooldown,
                   max_strikes, seconds, pid, pbox, missing_items, new_strike,
                   status_label, is_fired_flag, io, tracks, person_boxes, scenario,
                   run, probe, savers>>

\* mutant: without a snapshot the strike leaves no record
ProcessPerson_needs_evidence(pd) ==
    /\ remaining > 0
    /\ LET snapshot_ok   == io # "snapshot_fails"
           save_ok       == io # "save_fails"
           missing       == MissingGear[pd.box, pd.ppe]
           before        == WorkerOf(worker_db, pd.pid)
           updated       == update_strikes(before, missing, now, cooldown)
           worker        == updated.worker
           accepted      == updated.result
           filename      == FreeName(evidence_snaps, pd.pid, now, 0)
           evidence_path == IF snapshot_ok THEN filename ELSE None
           violation     == record_violation(pd.pid, missing, worker.strikes,
                                             evidence_path)
           status        == get_worker_status(worker, missing, max_strikes)
       IN  /\ pid' = pd.pid
           /\ pbox' = pd.box
           /\ missing_items' = missing
           /\ new_strike' = accepted
           /\ status_label' = status[2]
           /\ is_fired_flag' = status[3]
           /\ worker_db' = [p \in DOMAIN worker_db \cup {pd.pid} |->
                               IF p = pd.pid THEN worker ELSE worker_db[p]]
           /\ IF accepted /\ evidence_path # None
              THEN /\ evidence_snaps' =
                         IF snapshot_ok THEN evidence_snaps \cup {filename}
                                        ELSE evidence_snaps
                   /\ database' = save_violation(database, violation, save_ok)
                   /\ violation_log' = Append(violation_log, violation)
              ELSE UNCHANGED <<evidence_snaps, database, violation_log>>
           /\ struck' = IF accepted THEN struck \cup {pd.pid} ELSE struck
           /\ scenario' = ScenarioAfter(scenario, pd.pid \notin DOMAIN worker_db,
                                        pd.pid, missing, now, cooldown)
           /\ run' = RunAfter(run, pd.pid = pid /\ missing = missing_items,
                              missing, now, accepted, cooldown)
    /\ remaining' = remaining - 1
    /\ UNCHANGED <<now, cooldown, max_strikes, seconds, io, tracks, person_boxes,
                   probe, savers>>

\* mutant: a strike that cannot be saved is taken back
ProcessPerson_rollback(pd) ==
    /\ remaining > 0
    /\ LET snapshot_ok   == io # "snapshot_fails"
           save_ok       == io # "save_fails"
           missing       == MissingGear[pd.box, pd.ppe]
           before        == WorkerOf(worker_db, pd.pid)
           updated       == update_strikes(before, missing, now, cooldown)
           worker        == updated.worker
           accepted      == updated.result
           filename      == FreeName(evidence_snaps, pd.pid, now, 0)
           evidence_path == IF snapshot_ok THEN filename ELSE None
           violation     == record_violation(pd.pid, missing, worker.strikes,
                                             evidence_path)
           status        == get_worker_status(worker, missing, max_strikes)
       IN  /\ pid' = pd.pid
           /\ pbox' = pd.box
           /\ missing_items' = missing
           /\ new_strike' = accepted
           /\ status_label' = status[2]
           /\ is_fired_flag' = status[3]
           /\ worker_db' = [p \in DOMAIN worker_db \cup {pd.pid} |->
                               IF p = pd.pid
                               THEN (IF accepted /\ ~save_ok THEN before ELSE worker)
                               ELSE worker_db[p]]
           /\ IF accepted
              THEN /\ evidence_snaps' =
                         IF snapshot_ok THEN evidence_snaps \cup {filename}
                                        ELSE evidence_snaps
                   /\ database' = save_violation(database, violation, save_ok)
                   /\ violation_log' = Append(violation_log, violation)
              ELSE UNCHANGED <<evidence_snaps, database, violation_log>>
           /\ struck' = IF accepted THEN struck \cup {pd.pid} ELSE struck
           /\ scenario' = ScenarioAfter(scenario, pd.pid \notin DOMAIN worker_db,
                                        pd.pid, missing, now, cooldown)
           /\ run' = RunAfter(run, pd.pid = pid /\ missing = missing_items,
                              missing, now, accepted, cooldown)
    /\ remaining' = remaining - 1
    /\ UNCHANGED <<now, cooldown, max_strikes, seconds, io, tracks, person_boxes,
                   probe, savers>>

\* one pass of the body of "for idx in person_indices", for person detection pd
ProcessPerson(pd) ==
    /\ remaining > 0
    /\ LET snapshot_ok   == io # "snapshot_fails"
           save_ok       == io # "save_fails"
           missing       == MissingGear[pd.box, pd.ppe]
           before        == WorkerOf(worker_db, pd.pid)
           updated       == update_strikes(before, missing, now, cooldown)
           worker        == updated.worker
           accepted      == updated.result
           filename      == FreeName(evidence_snaps, pd.pid, now, 0)
           evidence_path == IF snapshot_ok THEN filename ELSE None
           violation     == record_violation(pd.pid, missing, worker.strikes,
                                             evidence_path)
           status        == get_worker_status(worker, missing, max_strikes)
       IN  /\ pid' = pd.pid
           /\ pbox' = pd.box
           /\ missing_items' = missing
           /\ new_strike' = accepted
           /\ status_label' = status[2]
           /\ is_fired_flag' = status[3]
           /\ worker_db' = [p \in DOMAIN worker_db \cup {pd.pid} |->
                               IF p = pd.pid THEN worker ELSE worker_db[p]]
           /\ IF accepted
              THEN /\ evidence_snaps' =
                         IF snapshot_ok THEN evidence_snaps \cup {filename}
                                        ELSE evidence_snaps
                   /\ database' = save_violation(database, violation, save_ok)
                   /\ violation_log' = Append(violation_log, violation)
              ELSE UNCHANGED <<evidence_snaps, database, violation_log>>
           /\ struck' = IF accepted THEN struck \cup {pd.pid} ELSE struck
           /\ scenario' = ScenarioAfter(scenario, pd.pid \notin DOMAIN worker_db,
                                        pd.pid, missing, now, cooldown)
           /\ run' = RunAfter(run, pd.pid = pid /\ missing = missing_items,
                              missing, now, accepted, cooldown)
    /\ remaining' = remaining - 1
    /\ UNCHANGED <<now, cooldown, max_strikes, seconds, io, tracks, person_boxes,
                   probe, savers>>

\* mutant: the files are wiped, the session state is left alone
DeleteAllRecords_files_only ==
    /\ remaining = 0
    /\ database.exists /\ database.rows # << >>
    /\ database' = [exists |-> FALSE, rows |-> << >>]
    /\ evidence_snaps' = {}
    /\ UNCHANGED <<worker_db, violation_log, scenario, run>>
    /\ UNCHANGED <<now, cooldown, max_strikes, seconds, remaining, pid, pbox,
                   missing_items, new_strike, status_label, is_fired_flag, io, tracks,
                   person_boxes, struck, probe, savers>>

\* "Delete All Records" of the violations log page
DeleteAllRecords ==
    /\ remaining = 0
    /\ database.exists /\ database.rows # << >>
    /\ database' = [exists |-> FALSE, rows |-> << >>]
    /\ evidence_snaps' = {}
    /\ worker_db' = << >>
    /\ violation_log' = << >>
    /\ scenario' = NoScenario
    /\ run' = NoRun
    /\ UNCHANGED <<now, cooldown, max_strikes, seconds, remaining, pid, pbox,
                   missing_items, new_strike, status_label, is_fired_flag, io, tracks,
                   person_boxes, struck, probe, savers>>

Next ==
    \/ Tick
    \/ ReadFrame
    \/ \E pd \in PersonDetections :
          pd.pid \in tracks /\ pd.box \in person_boxes /\ ProcessPerson(pd)
    \/ DeleteAllRecords

Spec == Init /\ [][Next]_vars

\* the run that reaches the maximum
InitFiring == Started /\ Configured(FiringSession)

SpecFiring == InitFiring /\ [][Next]_vars

\* the run with malformed person boxes
InitBoxes == Started /\ Configured(BoxesSession)

SpecBoxes == InitBoxes /\ [][Next]_vars

\* ------------------------------------------- the loop that keeps running

InitLive == Started /\ Configured(LiveSession)

\* a pass of the person loop for track p
PassOf(p) ==
    \E pd \in PersonDetections :
        pd.pid = p /\ pd.pid \in tracks /\ pd.box \in person_boxes /\ ProcessPerson(pd)

\* the clock goes on, the loop reads frame after frame and gets through the
\* persons of each, and every track of the run keeps turning up in the frames
SpecLive ==
    /\ InitLive
    /\ [][Next]_vars
    /\ WF_vars(Tick)
    /\ WF_vars(ReadFrame)
    /\ \A p \in TrackIds : SF_vars(PassOf(p))

\* ------------------------------- two sessions that save to the one database

\* what a step of save_violation leaves alone
session_state ==
    <<worker_db, violation_log, evidence_snaps, now, cooldown, max_strikes,
      seconds, remaining, pid, pbox, missing_items, new_strike, status_label,
      is_fired_flag, io, tracks, person_boxes, struck, scenario, run, probe>>

\* session s has a strike accepted and calls save_violation with its record:
\* df_new = pd.DataFrame([violation_record])
SaveCall(s) ==
    /\ savers[s].pc = "idle"
    /\ Len(savers[s].saved) < MaxSaves
    /\ \E gear \in GearChoices :
          savers' = [savers EXCEPT
                       ![s].pc = "isfile",
                       ![s].violation_record =
                           record_violation(s, get_missing_gear(gear),
                                            Len(savers[s].saved) + 1, None)]
    /\ UNCHANGED <<database, session_state>>

\* os.path.isfile(DATABASE_FILE): without a file df_final is df_new
SaveIsFile(s) ==
    /\ savers[s].pc = "isfile"
    /\ savers' = IF database.exists
                 THEN [savers EXCEPT ![s].pc = "read_csv"]
                 ELSE [savers EXCEPT ![s].pc = "to_csv",
                                     ![s].df_final = <<savers[s].violation_record>>]
    /\ UNCHANGED <<database, session_state>>

\* df_existing = pd.read_csv(DATABASE_FILE), and pd.concat(...).tail(500)
SaveReadCsv(s) ==
    /\ savers[s].pc = "read_csv"
    /\ savers' = [savers EXCEPT
                    ![s].pc = "to_csv",
                    ![s].df_final =
                        LastRows(Append(database.rows, savers[s].violation_record),
                                 RowLimit)]
    /\ UNCHANGED <<database, session_state>>

\* df_final.to_csv(DATABASE_FILE, index=False), and the call returns
SaveToCsv(s) ==
    /\ savers[s].pc = "to_csv"
    /\ database' = [exists |-> TRUE, rows |-> savers[s].df_final]
    /\ savers' = [savers EXCEPT
                    ![s].pc = "idle",
                    ![s].violation_record = << >>,
                    ![s].df_final = << >>,
                    ![s].saved = Append(@, savers[s].violation_record)]
    /\ UNCHANGED session_state

NextSaving ==
    \E s \in SaverSessions :
        SaveCall(s) \/ SaveIsFile(s) \/ SaveReadCsv(s) \/ SaveToCsv(s)

\* the sessions whose I/O calls all succeed
InitSaving ==
    Started /\ \E session \in Sessions : session.io = "ok" /\ Configured(session)

SpecSaving == InitSaving /\ [][NextSaving]_vars

\* ------------------------------------------- the pure functions on their own

\* everything but probe
program == <<worker_db, violation_log, database, evidence_snaps, now, cooldown,
             max_strikes, seconds, remaining, pid, pbox, missing_items, new_strike,
             status_label, is_fired_flag, io, tracks, person_boxes, struck,
             scenario, run, savers>>

\* the worker records the status functions are called with
ProbedWorkers ==
    [strikes : 0..MaxCount, last_violation : {<< >>, <<"Vest">>},
     last_strike_time : {0, StartTime}]

\* is_fired and get_worker_status called with the same count and maximum (the
\* functions keep no state: a behaviour follows one call)
CallGetWorkerStatus ==
    /\ probe = NoProbe
    /\ \E worker \in ProbedWorkers, gear \in GearChoices,
          max \in MinMaxStrikes..MaxMaxStrikes :
          probe' = [fn            |-> "get_worker_status",
                    worker        |-> worker,
                    missing_items |-> get_missing_gear(gear),
                    max_strikes   |-> max,
                    status        |-> get_worker_status(worker, get_missing_gear(gear), max),
                    fired         |-> is_fired(worker.strikes, max)]
    /\ UNCHANGED program

\* the lists of at most n PPE detections
RECURSIVE DetectionLists(_)
DetectionLists(n) ==
    IF n = 0 THEN {<< >>}
    ELSE DetectionLists(n - 1)
         \cup {Append(ppe, PPE[name]) : ppe \in DetectionLists(n - 1), name \in DOMAIN PPE}

\* a list back to front
RECURSIVE Reverse(_)
Reverse(s) == IF s = << >> THEN << >> ELSE Append(Reverse(Tail(s)), Head(s))

\* get_missing_gear called for a person box and a list of PPE detections, and
\* again for the list back to front followed by the list itself; equipment is
\* the set of the kinds is_associated accepts for the person
CallGetMissingGear ==
    /\ probe = NoProbe
    /\ \E box \in PersonBoxes, ppe \in DetectionLists(MaxDetections) :
          probe' = [fn         |-> "get_missing_gear",
                    person_box |-> box,
                    ppe        |-> ppe,
                    equipment  |-> {class_mapping(ppe[i].cls) :
                                      i \in {j \in 1..Len(ppe) :
                                         is_associated(box, ppe[j].box, ppe[j].cls)}},
                    missing    |-> get_missing_gear(DetectedGear(box, ppe)),
                    again      |-> get_missing_gear(
                                      DetectedGear(box, Reverse(ppe) \o ppe))]
    /\ UNCHANGED program

\* ------------------------------------ the video report (SafetyMonitor)

\* person.id of a box the tracker gave no id: None; and of one it gave id n, <<n>>
NoId == << >>

\* self.ppe_classes
ppe_classes ==
    [helmet |-> "helmet", hardhat |-> "helmet", goggles |-> "goggles",
     glasses |-> "goggles", mask |-> "mask", gloves |-> "gloves",
     shoes |-> "shoes", boots |-> "shoes", vest |-> "vest"]

\* self.ppe_classes.get(eq_class, eq_class)
ppe_classes_get(eq_class) ==
    IF eq_class \in DOMAIN ppe_classes THEN ppe_classes[eq_class] ELSE eq_class

\* SafetyMonitor._calculate_iou, as the fraction intersection / union
SafetyMonitor_calculate_iou(box1, box2) ==
    LET x1 == Max(box1[1], box2[1])
        y1 == Max(box1[2], box2[2])
        x2 == Min(box1[3], box2[3])
        y2 == Min(box1[4], box2[4])
        intersection == Max(0, x2 - x1) * Max(0, y2 - y1)
        area1 == (box1[3] - box1[1]) * (box1[4] - box1[2])
        area2 == (box2[3] - box2[1]) * (box2[4] - box2[2])
        union == area1 + area2 - intersection
    IN  IF union > 0 THEN [num |-> intersection, den |-> union]
        ELSE [num |-> 0, den |-> 1]

\* SafetyMonitor.check_association, in whole numbers as is_associated is
check_association(person_box, item_box, item_class) ==
    LET px1 == person_box[1]
        py1 == person_box[2]
        px2 == person_box[3]
        py2 == person_box[4]
        person_height == py2 - py1
        cx2  == item_box[1] + item_box[3]
        cy30 == 15 * (item_box[2] + item_box[4])
        across == 2 * px1 <= cx2 /\ cx2 <= 2 * px2
        iou == SafetyMonitor_calculate_iou(person_box, item_box)
    IN  IF item_class \in {"helmet", "hardhat"}
        THEN 30 * py1 <= cy30 /\ cy30 <= 30 * py1 + 10 * person_height /\ across
        ELSE IF item_class \in {"shoes", "boots"}
        THEN 30 * py2 - 6 * person_height <= cy30 /\ cy30 <= 30 * py2 /\ across
        ELSE IF item_class \in {"goggles", "glasses"}
        THEN 30 * py1 <= cy30 /\ cy30 <= 30 * py1 + 12 * person_height /\ across
        ELSE IF item_class = "mask"
        THEN /\ 30 * py1 + 6 * person_height <= cy30
             /\ cy30 <= 30 * py1 + 15 * person_height
             /\ across
        ELSE IF item_class = "gloves"
        THEN 10 * iou.num > iou.den
        ELSE IF item_class = "vest"
        THEN /\ 30 * py1 + 6 * person_height <= cy30
             /\ cy30 <= 30 * py1 + 21 * person_height
             /\ across
        ELSE across /\ 30 * py1 <= cy30 /\ cy30 <= 30 * py2

\* the boxes of a frame as the tracker returns them: class name, box and id
DetectorBoxes ==
    [person7  |-> [cls |-> "person", box |-> WellFormedBox, id |-> <<7>>],
     person8  |-> [cls |-> "person", box |-> WellFormedBox, id |-> <<8>>],
     unnamed  |-> [cls |-> "person", box |-> WellFormedBox, id |-> NoId],
     helmet   |-> [cls |-> "helmet", box |-> <<30, 10, 70, 50>>, id |-> NoId],
     mask     |-> [cls |-> "mask", box |-> <<35, 80, 65, 120>>, id |-> NoId],
     boots    |-> [cls |-> "boots", box |-> <<20, 270, 80, 300>>, id |-> NoId]]

\* the frames of at most n boxes
RECURSIVE DetectorFrames(_)
DetectorFrames(n) ==
    IF n = 0 THEN {<< >>}
    ELSE DetectorFrames(n - 1)
         \cup {Append(boxes, DetectorBoxes[name]) :
                  boxes \in DetectorFrames(n - 1), name \in DOMAIN DetectorBoxes}

\* SafetyMonitor.process_frame from results[0].boxes on: compliance_data (the
\* violations and detected_ppe of an entry as sets, without the timestamp)
process_frame(boxes) ==
    LET values == {ppe_classes[key] : key \in DOMAIN ppe_classes}
        IsPerson(box) == box.cls = "person"
        IsEquipment(box) == box.cls # "person" /\ box.cls \in values
        persons == SelectSeq(boxes, IsPerson)
        equipment == SelectSeq(boxes, IsEquipment)
        required_ppe == {"helmet", "goggles", "mask", "gloves", "shoes"}
        person_status(person) ==
            LET p_id == IF person.id # NoId THEN person.id[1] ELSE -1
                detected_ppe ==
                    {ppe_classes_get(equipment[i].cls) :
                        i \in {j \in 1..Len(equipment) :
                                 check_association(person.box, equipment[j].box,
                                                   equipment[j].cls)}}
                missing_ppe == required_ppe \ detected_ppe
            IN  [id |-> p_id,
                 bbox |-> person.box,
                 status |-> IF missing_ppe = {} THEN "Safe" ELSE "Violation",
                 violations |-> {"Missing " \o item : item \in missing_ppe},
                 detected_ppe |-> detected_ppe]
    IN  [i \in 1..Len(persons) |-> person_status(persons[i])]

\* the class ids of the PPE detections is_associated is called with: the six
\* that class_mapping names and two it does not
ItemClasses == 1..8

\* the item boxes is_associated is called with: boxes of 20 by 20 whose centre
\* is on, next to and away from the edges of the bands of the well-formed
\* person box; a box whose centre is between two pixels; boxes that share a
\* tenth and just over a tenth of the person's area; and boxes without area
ItemBoxes ==
    { <<cx - 10, cy - 10, cx + 10, cy + 10>> :
         cx \in {-1, 0, 50, 100, 101},
         cy \in {-1, 0, 59, 60, 61, 100, 101, 120, 121, 150, 210, 211, 239, 240,
                 300, 301} }
    \cup { <<0, 0, 1, 201>>, <<0, 0, 100, 30>>, <<0, 0, 100, 31>>,
            <<50, 0, 50, 300>>, <<50, 100, 50, 100>> }

\* is_associated called for a person box and one PPE detection, and
\* get_missing_gear for the person with the PPE detections of a frame and with
\* the same detections followed by that one
CallIsAssociated ==
    /\ probe = NoProbe
    /\ \E box \in PersonBoxes, item_box \in ItemBoxes, item_class \in ItemClasses,
          ppe \in PPEFrames \cup {<< >>} :
          probe' = [fn         |-> "is_associated",
                    person_box |-> box,
                    item_box   |-> item_box,
                    item_class |-> item_class,
                    associated |-> is_associated(box, item_box, item_class),
                    iou        |-> calculate_iou(box, item_box),
                    ppe        |-> ppe,
                    missing    |-> get_missing_gear(DetectedGear(box, ppe)),
                    missing_with |->
                        get_missing_gear(DetectedGear(box,
                            Append(ppe, [cls |-> item_class, box |-> item_box])))]
    /\ UNCHANGED program

\* process_frame called on a frame of its own
CallProcessFrame ==
    /\ probe = NoProbe
    /\ \E boxes \in DetectorFrames(MaxDetections) :
          probe' = [fn              |-> "process_frame",
                    boxes           |-> boxes,
                    compliance_data |-> process_frame(boxes)]
    /\ UNCHANGED program

NextPure ==
    \/ CallGetWorkerStatus
    \/ CallGetMissingGear
    \/ CallIsAssociated
    \/ CallProcessFrame

SpecPure == Init /\ [][NextPure]_vars

\* ------------------------------------------------------------ the claims

\* the step is one pass of the person loop
PersonStep == remaining' = remaining - 1

\* the track's record as that pass found it, and as it left it
Before == WorkerOf(worker_db, pid')

After == worker_db'[pid']

\* more than the cooldown has passed since the track's last accepted strike
CooldownElapsed == now - Before.last_strike_time > cooldown

\* the pass produced something: an event, a snapshot or a database row
Produced ==
    \/ violation_log' # violation_log
    \/ database' # database
    \/ evidence_snaps' # evidence_snaps

\* the ID a record carries for track p
IdOf(p) == "Worker-" \o ToString(p)

\* the positions of log whose record is about track p
EventsOf(log, p) == {i \in 1..Len(log) : log[i].ID = IdOf(p)}

\* the last record of log about track p, which has one
LastEventOf(log, p) ==
    log[CHOOSE i \in EventsOf(log, p) : \A j \in EventsOf(log, p) : j <= i]

\* the MissingSets the model feeds in
MissingLists == {get_missing_gear(gear) : gear \in GearChoices}

\* C1: a strike is accepted, the count raised or anything produced only on a
\* tick whose MissingSet is non-empty, whose sorted MissingSet differs from the
\* stored signature and that comes after the cooldown; so a changed signature
\* inside the cooldown is not accepted and an empty MissingSet creates no event.
C1_AcceptedOnlyIf ==
    [][PersonStep =>
        /\ (new_strike' \/ After.strikes # Before.strikes \/ Produced) =>
              /\ missing_items' # << >>
              /\ sorted(missing_items') # Before.last_violation
              /\ CooldownElapsed
        /\ (sorted(missing_items') # Before.last_violation /\ ~CooldownElapsed) =>
              ~new_strike' /\ ~Produced
        /\ missing_items' = << >> => ~new_strike' /\ ~Produced]_vars

\* a changed signature arrived inside the cooldown and was turned down
C1_Witness ==
    /\ pid \in DOMAIN worker_db
    /\ missing_items # << >>
    /\ ~new_strike
    /\ worker_db[pid].strikes = 1
    /\ worker_db[pid].last_violation # sorted(missing_items)
    /\ now - worker_db[pid].last_strike_time <= cooldown
    /\ Len(violation_log) = 1

\* C2: an accepted strike raises the count by exactly one, stores the sorted
\* MissingSet and the time of the tick, and appends exactly one event, which
\* carries the track id and the count after the increment.
C2_AcceptedEffect ==
    [][(PersonStep /\ new_strike') =>
        /\ After.strikes = Before.strikes + 1
        /\ After.last_violation = sorted(missing_items')
        /\ After.last_strike_time = now
        /\ Len(violation_log') = Len(violation_log) + 1
        /\ SubSeq(violation_log', 1, Len(violation_log)) = violation_log
        /\ violation_log'[Len(violation_log')].ID = IdOf(pid')
        /\ violation_log'[Len(violation_log')].Strikes = After.strikes]_vars

\* a track's second strike was accepted, for a MissingSet that sorting reorders
C2_Witness ==
    /\ new_strike
    /\ pid \in DOMAIN worker_db
    /\ worker_db[pid].strikes = 2
    /\ missing_items = <<"Vest", "Gloves">>
    /\ worker_db[pid].last_violation = <<"Gloves", "Vest">>
    /\ worker_db[pid].last_strike_time = now
    /\ violation_log # << >>
    /\ violation_log[Len(violation_log)].Strikes = 2

\* C3: a track's strike count changes only by +1, at an accepted strike of that
\* track; a track disappears or its count drops only in the full reset, after
\* which every track id stands at 0 strikes.
C3_CountMonotone ==
    [][\A p \in DOMAIN worker_db :
        IF p \in DOMAIN worker_db'
        THEN \/ worker_db'[p].strikes = worker_db[p].strikes
             \/ /\ worker_db'[p].strikes = worker_db[p].strikes + 1
                /\ PersonStep /\ pid' = p /\ new_strike'
        ELSE /\ worker_db' = << >>
             /\ violation_log' = << >>
             /\ \A q \in TrackIds : WorkerOf(worker_db', q).strikes = 0]_vars

\* the registry was reset after a strike had been accepted
C3_Witness ==
    /\ worker_db = << >>
    /\ new_strike
    /\ pid \in TrackIds
    /\ now > StartTime + cooldown

\* C4: a track's stored signature is empty, or it is the sorted MissingSet of
\* the track's most recently accepted strike (the MissingSet its last event
\* lists); a track without strikes has the empty signature.
C4_SignatureIsLastStrike ==
    \A p \in DOMAIN worker_db :
        /\ worker_db[p].strikes = 0 =>
              worker_db[p].last_violation = << >> /\ EventsOf(violation_log, p) = {}
        /\ worker_db[p].last_violation # << >> =>
              /\ EventsOf(violation_log, p) # {}
              /\ \E m \in MissingLists :
                    /\ Join(m) = LastEventOf(violation_log, p).Violation
                    /\ worker_db[p].last_violation = sorted(m)

\* a tick with another MissingSet was turned down after a strike, and the
\* signature is still the one of the strike
C4_Witness ==
    /\ pid \in DOMAIN worker_db
    /\ ~new_strike
    /\ missing_items = <<"Vest", "Gloves">>
    /\ worker_db[pid].last_violation = <<"Vest">>
    /\ EventsOf(violation_log, pid) # {}
    /\ LastEventOf(violation_log, pid).Violation = "Vest"

\* C5: a tick with an empty MissingSet empties the signature, cooldown over or
\* not, and accepts no strike: count and last-strike time stay, nothing is
\* produced.
C5_CompliantTick ==
    [][(PersonStep /\ missing_items' = << >>) =>
        /\ After.last_violation = << >>
        /\ After.strikes = Before.strikes
        /\ After.last_strike_time = Before.last_strike_time
        /\ ~new_strike'
        /\ ~Produced]_vars

\* a compliant tick inside the cooldown emptied the signature of a struck track
C5_Witness ==
    /\ pid \in DOMAIN worker_db
    /\ missing_items = << >>
    /\ ~new_strike
    /\ worker_db[pid].strikes = 1
    /\ worker_db[pid].last_violation = << >>
    /\ now - worker_db[pid].last_strike_time < cooldown

\* C6: a tick with a non-empty MissingSet that is turned down (signature
\* unchanged, or cooldown not over) changes nothing: the track's record stays
\* as it was and no event, snapshot or database row is produced.
C6_RejectedTick ==
    [][(/\ PersonStep
        /\ missing_items' # << >>
        /\ \/ sorted(missing_items') = Before.last_violation
           \/ ~CooldownElapsed
           \/ ~new_strike') =>
        /\ ~new_strike'
        /\ After = Before
        /\ ~Produced]_vars

\* a tick was turned down only because its signature is the stored one
C6_Witness ==
    /\ pid \in DOMAIN worker_db
    /\ missing_items # << >>
    /\ ~new_strike
    /\ worker_db[pid].last_violation = sorted(missing_items)
    /\ now - worker_db[pid].last_strike_time > cooldown
    /\ Len(violation_log) = 1

\* C7: in a run of consecutive ticks of one track that all carry the same
\* non-empty MissingSet, at most one strike is accepted, and so at most one
\* violation event produced, within one cooldown of the run's first tick.
C7_OneStrikePerRun ==
    run.strikes <= 1

\* a run of the same MissingSet that outlasted the cooldown, with its one strike
C7_Witness ==
    /\ pid \in DOMAIN worker_db
    /\ ~new_strike
    /\ missing_items # << >>
    /\ run.strikes = 1
    /\ now > run.first + cooldown

\* C8: a track that was struck for a MissingSet and whose last tick was
\* compliant starts a new episode with a tick that carries that MissingSet
\* again: the signature counts as changed, and the strike is accepted when more
\* than the cooldown has passed since the last accepted one.
C8_NewEpisodeAfterClear ==
    [][(/\ PersonStep
        /\ pid' = pid
        /\ missing_items = << >>
        /\ missing_items' # << >>
        /\ \E i \in EventsOf(violation_log, pid') :
               violation_log[i].Violation = Join(missing_items'))
       => /\ is_new_violation(Before, missing_items')
          /\ CooldownElapsed =>
                /\ new_strike'
                /\ After.strikes = Before.strikes + 1
                /\ Len(violation_log') = Len(violation_log) + 1]_vars

\* two strikes in a row of one track for the same MissingSet: the signature was
\* cleared in between
C8_Witness ==
    /\ new_strike
    /\ Len(violation_log) = 2
    /\ violation_log[1].ID = IdOf(pid)
    /\ violation_log[2].ID = IdOf(pid)
    /\ violation_log[1].Violation = violation_log[2].Violation
    /\ violation_log[2].Violation = Join(missing_items)
    /\ worker_db[pid].strikes = 2

\* C9: any two accepted strikes of one track, each of which put an event in
\* the log, are at least the cooldown apart.
C9_StrikesCooldownApart ==
    \A i, j \in 1..Len(violation_log) :
        (i < j /\ violation_log[i].ID = violation_log[j].ID)
            => violation_log[j].Time - violation_log[i].Time >= cooldown

\* a track struck twice, for different MissingSets, as early as the code allows
C9_Witness ==
    /\ Len(violation_log) = 2
    /\ violation_log[1].ID = violation_log[2].ID
    /\ violation_log[1].Violation # violation_log[2].Violation
    /\ violation_log[2].Time - violation_log[1].Time = cooldown + 1

\* C10: the scenario of track 7 under a cooldown of 5: the first tick, Vest
\* missing, is accepted (count 1); the tick 2 seconds later, Vest missing, is
\* rejected (count 1); the tick 6 seconds after the first, Vest and Gloves
\* missing, is accepted (count 2); the tick 7 seconds after the first, nothing
\* missing, leaves the count at 2 and clears the signature.
C10_Scenario ==
    LET worker == worker_db[Scenario.track]
    IN  /\ scenario.played = 1 =>
              /\ new_strike
              /\ worker = [strikes |-> 1, last_violation |-> <<"Vest">>,
                           last_strike_time |-> scenario.start]
        /\ scenario.played = 2 =>
              /\ ~new_strike
              /\ worker = [strikes |-> 1, last_violation |-> <<"Vest">>,
                           last_strike_time |-> scenario.start]
        /\ scenario.played = 3 =>
              /\ new_strike
              /\ worker = [strikes |-> 2, last_violation |-> <<"Gloves", "Vest">>,
                           last_strike_time |-> scenario.start + 6]
        /\ scenario.played = 4 =>
              /\ ~new_strike
              /\ worker = [strikes |-> 2, last_violation |-> << >>,
                           last_strike_time |-> scenario.start + 6]

\* the four ticks of the scenario have been played
C10_Witness ==
    /\ scenario.played = 4
    /\ pid = Scenario.track
    /\ now = scenario.start + 7
    /\ Len(violation_log) = 2

C12_FiredStays ==
    [][/\ PersonStep =>
            /\ After.strikes >= max_strikes =>
                  status_label' = "FIRED!" /\ is_fired_flag'
            /\ Before.strikes >= max_strikes =>
                  /\ After.strikes >= max_strikes
                  /\ new_strike' = (/\ missing_items' # << >>
                                    /\ sorted(missing_items') # Before.last_violation
                                    /\ CooldownElapsed)
                  /\ new_strike' => After.strikes = Before.strikes + 1
       /\ ~PersonStep =>
            \/ worker_db' = worker_db
            \/ worker_db' = << >> /\ violation_log' = << >>]_vars

\* a fired track was struck once more
C12_Witness ==
    /\ pid \in DOMAIN worker_db
    /\ worker_db[pid].strikes = max_strikes + 1
    /\ new_strike
    /\ status_label = "FIRED!"
    /\ is_fired_flag

\* C13: the first pass for a track id puts it in the registry, and acts on a
\* record of 0 strikes, no signature and strike time 0: with nothing missing it
\* leaves just that, otherwise it accepts the first strike. A pass for a track
\* that is in the registry never takes it back to such a record, a pass leaves
\* all other tracks alone, and no step but the emptying of the whole registry
\* takes a track id out of it.
C13_TrackLifecycle ==
    [][/\ (PersonStep /\ pid' \notin DOMAIN worker_db) =>
            /\ DOMAIN worker_db' = DOMAIN worker_db \cup {pid'}
            /\ missing_items' = << >> => ~new_strike' /\ After = NewWorker
            /\ missing_items' # << >> =>
                  /\ new_strike'
                  /\ After = [strikes |-> 1, last_violation |-> sorted(missing_items'),
                              last_strike_time |-> now]
       /\ (PersonStep /\ pid' \in DOMAIN worker_db) =>
            /\ DOMAIN worker_db' = DOMAIN worker_db
            /\ After.strikes >= worker_db[pid'].strikes
            /\ After.last_strike_time >= worker_db[pid'].last_strike_time
       /\ PersonStep =>
            \A p \in DOMAIN worker_db \ {pid'} : worker_db'[p] = worker_db[p]
       /\ ~(DOMAIN worker_db \subseteq DOMAIN worker_db') =>
            /\ worker_db' = << >>
            /\ ~PersonStep
            /\ database' = [exists |-> FALSE, rows |-> << >>]]_vars

\* a track seen for the first time, with nothing missing, beside a track that
\* was struck before
C13_Witness ==
    /\ DOMAIN worker_db = {7, 8}
    /\ worker_db[pid] = NewWorker
    /\ \E p \in DOMAIN worker_db : p # pid /\ worker_db[p].strikes = 1

C15_EventWithoutEvidence ==
    [][(PersonStep /\ new_strike' /\ io = "snapshot_fails") =>
        /\ Len(violation_log') = Len(violation_log) + 1
        /\ SubSeq(violation_log', 1, Len(violation_log)) = violation_log
        /\ LET event == violation_log'[Len(violation_log')]
           IN  /\ event.Evidence = EmptyString
               /\ event.ID = IdOf(pid')
               /\ event.Strikes = After.strikes
               /\ event.Time = now
               /\ database'.exists
               /\ database'.rows = Append(database.rows, event)
        /\ evidence_snaps' = evidence_snaps]_vars

\* a strike whose snapshot could not be saved is in the log and in the database
C15_Witness ==
    /\ io = "snapshot_fails"
    /\ new_strike
    /\ violation_log # << >>
    /\ violation_log[Len(violation_log)].Evidence = EmptyString
    /\ violation_log[Len(violation_log)].ID = IdOf(pid)
    /\ database.rows = violation_log
    /\ evidence_snaps = {}

\* C16: when save_violation fails for an accepted strike, the track keeps what
\* the strike committed: the count raised by one, the sorted signature and the
\* time of the strike; the record is still in the log of the session, the
\* database is as it was, and the loop goes on to the next person.
C16_NoRollback ==
    [][(PersonStep /\ new_strike' /\ io = "save_fails") =>
        /\ After = [strikes          |-> Before.strikes + 1,
                    last_violation   |-> sorted(missing_items'),
                    last_strike_time |-> now]
        /\ database' = database
        /\ Len(violation_log') = Len(violation_log) + 1
        /\ remaining' = remaining - 1]_vars

\* after a strike that could not be saved, the next strike of the track was
\* accepted and counted on top of it
C16_Witness ==
    /\ io = "save_fails"
    /\ new_strike
    /\ worker_db[pid].strikes = 2
    /\ Len(violation_log) = 2
    /\ database.rows = << >>

\* C17: the violation text of the event of an accepted strike is the sorted
\* MissingSet, comma-joined: the labels of the signature the strike stored on
\* the track, in the same order.
C17_TextIsSortedSignature ==
    [][(PersonStep /\ new_strike') =>
        LET event == violation_log'[Len(violation_log')]
        IN  /\ event.Violation = Join(sorted(missing_items'))
            /\ event.Violation = Join(After.last_violation)]_vars

\* the place of a label in the order get_missing_gear lists them
PolicyRank(label) ==
    CASE label = "Vest"     -> 1
      [] label = "Gloves"   -> 2
      [] label = "Shoes"    -> 3
      [] label = "Headgear" -> 4

\* C18: get_missing_gear lists Vest, Gloves and Shoes each exactly when that
\* kind is not in the equipment set, and Headgear exactly when none of Helmet,
\* Welding Helmet and Goggles is; with no PPE detections it lists all four.
\* The labels always come in the one order Vest, Gloves, Shoes, Headgear, each
\* at most once, and the list is the same for the detections in another order
\* and repeated.
C18_MissingFromEquipment ==
    probe.fn = "get_missing_gear" =>
        LET missing == probe.missing
            listed(label) == \E i \in 1..Len(missing) : missing[i] = label
        IN  /\ \A label \in {"Vest", "Gloves", "Shoes"} :
                  listed(label) = (label \notin probe.equipment)
            /\ listed("Headgear") =
                  (probe.equipment \cap {"Helmet", "Welding Helmet", "Goggles"} = {})
            /\ \A i \in 1..Len(missing) :
                  missing[i] \in {"Vest", "Gloves", "Shoes", "Headgear"}
            /\ \A i, j \in 1..Len(missing) :
                  i < j => PolicyRank(missing[i]) < PolicyRank(missing[j])
            /\ probe.ppe = << >> =>
                  missing = <<"Vest", "Gloves", "Shoes", "Headgear">>
            /\ probe.again = missing

\* goggles alone count as head protection; a vest elsewhere in the frame and a
\* detection of a class without a name count for nothing
C18_Witness ==
    /\ probe.fn = "get_missing_gear"
    /\ probe.person_box = WellFormedBox
    /\ probe.ppe = <<PPE.FarVest, PPE.Goggles, PPE.Unnamed>>
    /\ probe.equipment = {"Goggles", "Class_7"}
    /\ probe.missing = <<"Vest", "Gloves", "Shoes">>

\* C19 as stated: a track that was struck in the current frame is not struck
\* again in it, and its count does not rise again, also when the detector
\* reports its id on another person box of the frame.
C19_OneStrikePerFrame ==
    [][(PersonStep /\ pid' \in struck) =>
        /\ ~new_strike'
        /\ After.strikes = Before.strikes]_vars

\* C19: a track that was struck in the current frame is not struck again in
\* it, and nothing is produced for it, on a pass that comes no more than the
\* cooldown after that strike.
C19_OneStrikePerFrameInCooldown ==
    [][(PersonStep /\ pid' \in struck /\ now - Before.last_strike_time <= cooldown) =>
        /\ ~new_strike'
        /\ After.strikes = Before.strikes
        /\ ~Produced]_vars

\* the second person box of a frame with the id of a track struck in the
\* frame, with a changed MissingSet, was turned down
C19_Witness ==
    /\ pid \in struck
    /\ ~new_strike
    /\ missing_items # << >>
    /\ sorted(missing_items) # worker_db[pid].last_violation
    /\ worker_db[pid].last_strike_time = now
    /\ remaining = 0

\* C20: a pass for a person whose box has x1 >= x2 or y1 >= y2 skips the
\* person: it creates and changes no track and produces nothing.
C20_MalformedBoxSkipped ==
    [][(PersonStep /\ (pbox'[1] >= pbox'[3] \/ pbox'[2] >= pbox'[4])) =>
        /\ worker_db' = worker_db
        /\ ~new_strike'
        /\ ~Produced]_vars

\* C21: a person detection that has no track id is skipped on its own: it
\* leaves no entry in what the frame's evaluation returns, and the persons of
\* the frame that have an id are evaluated, each under its id.
C21_NoIdSkipped ==
    probe.fn = "process_frame" =>
        LET persons == {i \in 1..Len(probe.boxes) : probe.boxes[i].cls = "person"}
            tracked == {i \in persons : probe.boxes[i].id # NoId}
        IN  /\ Len(probe.compliance_data) = Cardinality(tracked)
            /\ \A j \in 1..Len(probe.compliance_data) :
                  \E i \in tracked :
                     probe.compliance_data[j].id = probe.boxes[i].id[1]

\* C22: the cooldown condition is "at least the cooldown has elapsed": a tick
\* with a non-empty MissingSet and a changed signature that comes exactly the
\* cooldown after the track's last accepted strike is accepted as a strike.
C22_AcceptedAtCooldown ==
    [][(/\ PersonStep
        /\ Before.strikes > 0
        /\ missing_items' # << >>
        /\ sorted(missing_items') # Before.last_violation
        /\ now - Before.last_strike_time = cooldown)
       => new_strike' /\ After.strikes = Before.strikes + 1]_vars

\* the labels of a list
Range(s) == {s[i] : i \in DOMAIN s}

\* the probed call of is_associated: the item's centre, doubled, and whether
\* it lies within the person's horizontal extent, edges included
Centre2X == probe.item_box[1] + probe.item_box[3]

Centre2Y == probe.item_box[2] + probe.item_box[4]

WithinExtent ==
    2 * probe.person_box[1] <= Centre2X /\ Centre2X <= 2 * probe.person_box[3]

\* the centre lies between lo / den and hi / den of the person's height,
\* measured from the top edge, edges included
WithinBand(lo, hi, den) ==
    LET top == probe.person_box[2]
        height == probe.person_box[4] - probe.person_box[2]
    IN  /\ 2 * lo * height <= den * (Centre2Y - 2 * top)
        /\ den * (Centre2Y - 2 * top) <= 2 * hi * height

\* C23: a Helmet or Welding Helmet box is associated with a person exactly
\* when its centre lies within the person's horizontal extent and within the
\* top third of the person's height, edges included; such a box satisfies
\* Headgear, and a helmet whose centre is below the top third is not associated
\* and, on its own, leaves Headgear missing.
C23_HelmetRule ==
    (probe.fn = "is_associated" /\ probe.item_class \in {1, 2}) =>
        /\ probe.associated <=> (WithinExtent /\ WithinBand(0, 1, 3))
        /\ probe.associated => "Headgear" \notin Range(probe.missing_with)
        /\ (~WithinBand(0, 1, 3) /\ probe.ppe = << >>) =>
              /\ ~probe.associated
              /\ "Headgear" \in Range(probe.missing_with)

\* a welding helmet whose centre is on the lower edge of the top third and on
\* the right edge of the person is associated, and Headgear is satisfied
C23_Witness ==
    /\ probe.fn = "is_associated"
    /\ probe.item_class = 2
    /\ probe.person_box = WellFormedBox
    /\ probe.item_box = <<90, 90, 110, 110>>
    /\ probe.ppe = << >>
    /\ probe.associated
    /\ probe.missing = <<"Vest", "Gloves", "Shoes", "Headgear">>
    /\ probe.missing_with = <<"Vest", "Gloves", "Shoes">>

\* C24: is_associated agrees with the rule of the class: Goggles, the centre
\* within the horizontal extent and between the top edge and 0.4 of the height;
\* Vest, between 0.2 and 0.7 of the height; Shoes, in the bottom fifth; Gloves,
\* an IoU of the two boxes above 0.1, the IoU being 0 when the union is 0.
C24_ClassRules ==
    probe.fn = "is_associated" =>
        LET area(b) == (b[3] - b[1]) * (b[4] - b[2])
            width == Min(probe.person_box[3], probe.item_box[3])
                     - Max(probe.person_box[1], probe.item_box[1])
            height == Min(probe.person_box[4], probe.item_box[4])
                      - Max(probe.person_box[2], probe.item_box[2])
            inter == IF width > 0 /\ height > 0 THEN width * height ELSE 0
            union == area(probe.person_box) + area(probe.item_box) - inter
        IN  /\ probe.item_class = 3 =>
                 (probe.associated <=> (WithinExtent /\ WithinBand(0, 4, 10)))
            /\ probe.item_class = 4 =>
                 (probe.associated <=> (WithinExtent /\ WithinBand(2, 7, 10)))
            /\ probe.item_class = 6 =>
                 (probe.associated <=> (WithinExtent /\ WithinBand(4, 5, 5)))
            /\ probe.item_class = 5 =>
                 (probe.associated <=> (union > 0 /\ 10 * inter > union))
            /\ union <= 0 => probe.iou.num = 0

\* gloves that cover exactly a tenth of the person are not associated
C24_Witness ==
    /\ probe.fn = "is_associated"
    /\ probe.item_class = 5
    /\ probe.person_box = WellFormedBox
    /\ probe.item_box = <<0, 0, 100, 30>>
    /\ 10 * probe.iou.num = probe.iou.den
    /\ ~probe.associated

\* C25: an equipment detection of a class outside the known kinds raises no
\* error: it is associated exactly when its centre is inside the person's box,
\* and with it the person's MissingSet is what it is without it.
C25_UnknownClass ==
    (probe.fn = "is_associated" /\ probe.item_class \notin 1..6) =>
        /\ probe.associated <=> (WithinExtent /\ WithinBand(0, 1, 1))
        /\ probe.missing_with = probe.missing

\* a detection of class 7 in the middle of the person is associated, and the
\* person still misses the vest and the gloves the frame does not show
C25_Witness ==
    /\ probe.fn = "is_associated"
    /\ probe.item_class = 7
    /\ probe.person_box = WellFormedBox
    /\ probe.item_box = <<40, 140, 60, 160>>
    /\ probe.associated
    /\ probe.ppe = <<PPE.WeldingHelmet, PPE.Shoes>>
    /\ probe.missing = <<"Vest", "Gloves">>
    /\ probe.missing_with = <<"Vest", "Gloves">>

\* C26: between resets the violation log holds as many events of a track as
\* the track has strikes, and the events of one track carry the counts 1, 2,
\* 3, ... in the order they were logged, without a gap and without a repeat.
C26_LogMatchesCount ==
    \A p \in TrackIds :
        LET events == EventsOf(violation_log, p)
        IN  /\ Cardinality(events) = WorkerOf(worker_db, p).strikes
            /\ \A i \in events :
                  violation_log[i].Strikes = Cardinality({j \in events : j <= i})

\* two tracks struck in turn: the second event of track 7 follows the first
\* event of track 8 and carries the count 2
C26_Witness ==
    /\ Len(violation_log) = 3
    /\ violation_log[1].ID = IdOf(7) /\ violation_log[1].Strikes = 1
    /\ violation_log[2].ID = IdOf(8) /\ violation_log[2].Strikes = 1
    /\ violation_log[3].ID = IdOf(7) /\ violation_log[3].Strikes = 2
    /\ worker_db[7].strikes = 2
    /\ worker_db[8].strikes = 1

\* C27: for a track that has no strike yet (count 0, last strike time 0) the
\* first tick with a non-empty MissingSet is accepted as a strike, at whatever
\* time it comes; so after a tick that found a track non-compliant the track
\* never has the count 0.
C27_FirstViolationAccepted ==
    [][(PersonStep /\ missing_items' # << >>) =>
        /\ (Before.strikes = 0 /\ Before.last_strike_time = 0) =>
              new_strike' /\ After.strikes = 1 /\ After.last_strike_time = now
        /\ After.strikes > 0]_vars

\* a track seen at the very end of the footage for the first time with
\* something missing was struck there and then
C27_Witness ==
    /\ new_strike
    /\ missing_items # << >>
    /\ now = StartTime + seconds
    /\ DOMAIN worker_db = {pid}
    /\ worker_db[pid].strikes = 1
    /\ worker_db[pid].last_strike_time = now
    /\ Len(violation_log) = 1

\* C29: the state machine written inline in app_final.py and update_strikes
\* are equivalent: from the same track record, for the same time, MissingSet
\* and cooldown, they take the same decision and leave the same strike count,
\* signature and last strike time; so they do for every sequence of ticks.
C29_InlineEquivalent ==
    [][(PersonStep /\ cooldown = COOLDOWN_SECONDS) =>
        app_final_strikes(Before, missing_items', now)
            = [worker |-> After, result |-> new_strike']]_vars

\* a second strike both copies accept: a changed signature, six seconds after
\* the first strike, with a cooldown of five
C29_Witness ==
    /\ cooldown = COOLDOWN_SECONDS
    /\ new_strike
    /\ pid \in DOMAIN worker_db
    /\ worker_db[pid] = [strikes |-> 2, last_violation |-> <<"Gloves", "Vest">>,
                         last_strike_time |-> StartTime + COOLDOWN_SECONDS + 1]
    /\ violation_log[1].Time = StartTime
    /\ app_final_strikes([strikes |-> 1, last_violation |-> <<"Headgear", "Vest">>,
                          last_strike_time |-> StartTime],
                         missing_items, now).worker = worker_db[pid]

\* C30: save_violation appends without losing a record: when two sessions save
\* to the shared database at the same time, the records of both are in the
\* file once the calls have returned (the file being far below its 500 rows).
C30_NoRecordLost ==
    (\A s \in SaverSessions : savers[s].pc = "idle") =>
        \A s \in SaverSessions :
            \A i \in 1..Len(savers[s].saved) :
                savers[s].saved[i] \in Range(database.rows)

\* track p's last tick carried the MissingSet S, which is not the stored
\* signature, and was turned down, with footage left beyond the cooldown
Pending(p, S) ==
    /\ pid = p
    /\ p \in DOMAIN worker_db
    /\ missing_items = S
    /\ ~new_strike
    /\ sorted(S) # worker_db[p].last_violation
    /\ worker_db[p].last_strike_time + cooldown < StartTime + seconds

\* a strike for S has been accepted for track p
StruckFor(p, S) ==
    /\ pid = p
    /\ p \in DOMAIN worker_db
    /\ missing_items = S
    /\ new_strike
    /\ worker_db[p].last_violation = sorted(S)

\* C28: a violation that changes during the cooldown is delayed, not lost: a
\* tick with a non-empty MissingSet that differs from the stored signature is
\* accepted as soon as the cooldown has expired, and if a track's MissingSet
\* stays at such an S that was turned down, and its ticks keep arriving, a
\* strike for S is accepted.
C28_DelayedNotLost ==
    /\ [][(/\ PersonStep
           /\ missing_items' # << >>
           /\ sorted(missing_items') # Before.last_violation
           /\ CooldownElapsed) => new_strike']_vars
    /\ \A p \in TrackIds : \A S \in MissingLists :
          Pending(p, S) ~> (StruckFor(p, S) \/ (pid = p /\ missing_items # S))

\* the MissingSet changed inside the cooldown of the first strike, stayed, and
\* was struck at the first second after the cooldown
C28_Witness ==
    /\ new_strike
    /\ pid \in DOMAIN worker_db
    /\ Len(violation_log) = 2
    /\ violation_log[1].Violation # violation_log[2].Violation
    /\ violation_log[1].Time < run.first
    /\ run.first <= violation_log[1].Time + cooldown
    /\ violation_log[2].Time = violation_log[1].Time + cooldown + 1
    /\ now = violation_log[2].Time
    /\ worker_db[pid].strikes = 2

====
